---------------------------- MODULE Spec2Model ----------------------------
(***************************************************************************)
(* Model of packages/core/src/verify.ts: the verification pipeline         *)
(* getVerificationInformation (an async generator driven by a consumer),   *)
(* resolveChainConfig, getImportSourceNames, convertExStateToVerifyInfo,    *)
(* prepareInputBasedOn and resolveLibraryInfoForArtifact.                   *)
(*                                                                         *)
(* Strings the code takes apart (source names, import strings, compiler    *)
(* versions) are sequences of tokens: a path is a sequence over the        *)
(* separators "/" and "\\", the character "|", the dot segments "." and     *)
(* ".." and file or directory names.  Optional values are records with a   *)
(* boolean field telling whether the value is there.                       *)
(***************************************************************************)
EXTENDS Integers, Sequences, FiniteSets, TLC

VARIABLES
    deploymentState,            \* what loadDeploymentState returns
    customChains,               \* parameter customChains
    includeUnrelatedContracts,  \* parameter includeUnrelatedContracts
    builtinChains,              \* the imported builtinChains table
    platform,                   \* which implementation the "path" module is
    loaderSharesBuildInfo,      \* whether readBuildInfo hands out one object per build
    buildInfos,                 \* the BuildInfo objects behind readBuildInfo, by build
    pc,                         \* position of the generator
    requests,                   \* number of next() calls made by the consumer
    chainConfig,                \* local chainConfig
    deploymentExStates,         \* local deploymentExStates
    idx,                        \* position of the for-of loop in deploymentExStates
    buildInfo,                  \* local buildInfo of convertExStateToVerifyInfo
    artifact,                   \* local artifact of convertExStateToVerifyInfo
    verifyInfo,                 \* local verifyInfo of the loop body
    yielded,                    \* the elements delivered to the consumer, in order
    error,                      \* what the generator threw, if it did
    reads,                      \* the loader reads made so far, in order
    fnArgs,                     \* arguments of a function applied on its own
    fnResult                    \* its result

vars == <<deploymentState, customChains, includeUnrelatedContracts, builtinChains,
          platform, loaderSharesBuildInfo, buildInfos, pc, requests, chainConfig,
          deploymentExStates, idx, buildInfo, artifact, verifyInfo, yielded,
          error, reads, fnArgs, fnResult>>

pipelineVars == <<deploymentState, customChains, includeUnrelatedContracts,
                  loaderSharesBuildInfo, buildInfos, pc, requests, chainConfig,
                  deploymentExStates, idx, buildInfo, artifact, verifyInfo,
                  yielded, error, reads>>

-----------------------------------------------------------------------------
(* Bounds of the model *)

\* longest list of execution records in a deployment state
MaxRecords == 3
\* longest import list of one source file in the import-closure inputs
MaxImports == 2
\* longest custom or built-in chain list in the chain-resolution inputs
MaxChains == 2
\* call-stack frames getImportSourceNames may nest before the runtime
\* raises RangeError (maximum call stack size exceeded); the longest
\* acyclic import chain of the inputs has three files
MaxCallStack == 4

-----------------------------------------------------------------------------
(* Values *)

None == [defined |-> FALSE]
Some(v) == [defined |-> TRUE, value |-> v]

Returned(v) == [ok |-> TRUE, value |-> v]
Threw(e) == [ok |-> FALSE, error |-> e]

Platforms == {"posix", "win32"}

RECURSIVE SetToSeq(_)
SetToSeq(S) ==
    IF S = {} THEN <<>>
    ELSE LET x == CHOOSE y \in S : TRUE IN <<x>> \o SetToSeq(S \ {x})

RECURSIVE Flatten(_)
Flatten(ss) == IF ss = <<>> THEN <<>> ELSE Head(ss) \o Flatten(Tail(ss))

Range(s) == {s[i] : i \in 1..Len(s)}

-----------------------------------------------------------------------------
(* The "path" module of the runtime, on token sequences *)

PathSeps == IF platform = "win32" THEN {"/", "\\"} ELSE {"/"}
PathSep == IF platform = "win32" THEN "\\" ELSE "/"

SepPositions(p) == {i \in 1..Len(p) : p[i] \in PathSeps}

RECURSIVE SplitPath(_)
SplitPath(p) ==
    IF SepPositions(p) = {} THEN <<p>>
    ELSE LET k == CHOOSE i \in SepPositions(p) : \A j \in SepPositions(p) : i <= j
         IN <<SubSeq(p, 1, k - 1)>> \o SplitPath(SubSeq(p, k + 1, Len(p)))

RECURSIVE NormalizeSegments(_, _, _)
NormalizeSegments(segs, acc, allowAboveRoot) ==
    IF segs = <<>> THEN acc
    ELSE LET h == Head(segs)
             t == Tail(segs)
         IN IF h = <<>> \/ h = <<".">>
            THEN NormalizeSegments(t, acc, allowAboveRoot)
            ELSE IF h = <<"..">>
            THEN IF acc # <<>> /\ acc[Len(acc)] # <<"..">>
                 THEN NormalizeSegments(t, SubSeq(acc, 1, Len(acc) - 1), allowAboveRoot)
                 ELSE IF allowAboveRoot
                 THEN NormalizeSegments(t, Append(acc, h), allowAboveRoot)
                 ELSE NormalizeSegments(t, acc, allowAboveRoot)
            ELSE NormalizeSegments(t, Append(acc, h), allowAboveRoot)

RECURSIVE JoinSegments(_)
JoinSegments(segs) ==
    IF segs = <<>> THEN <<>>
    ELSE IF Len(segs) = 1 THEN segs[1]
    ELSE segs[1] \o <<PathSep>> \o JoinSegments(Tail(segs))

\* path.normalize, for paths without a drive and without a trailing separator
PathNormalize(p) ==
    LET isAbsolute == p # <<>> /\ p[1] \in PathSeps
        body == JoinSegments(NormalizeSegments(SplitPath(p), <<>>, ~isAbsolute))
    IN IF isAbsolute THEN <<PathSep>> \o body
       ELSE IF body = <<>> THEN <<".">> ELSE body

\* path.join(a, b)
PathJoin(a, b) ==
    IF a = <<>> /\ b = <<>> THEN <<".">>
    ELSE IF a = <<>> THEN PathNormalize(b)
    ELSE IF b = <<>> THEN PathNormalize(a)
    ELSE PathNormalize(a \o <<PathSep>> \o b)

\* path.dirname(p), for paths without a drive and without a trailing separator
PathDirname(p) ==
    IF SepPositions(p) = {} THEN <<".">>
    ELSE LET k == CHOOSE i \in SepPositions(p) : \A j \in SepPositions(p) : j <= i
         IN IF k = 1 THEN <<p[1]>> ELSE SubSeq(p, 1, k - 1)

\* s.replaceAll("\\", "/")
ReplaceAllBackslashes(s) == [i \in 1..Len(s) |-> IF s[i] = "\\" THEN "/" ELSE s[i]]

-----------------------------------------------------------------------------
(* getImportSourceNames *)

\* the regular expression ^\.\.?[\/|\\] of line 103
IsRelativeImport(i) ==
    /\ Len(i) >= 2
    /\ i[1] \in {".", ".."}
    /\ i[2] \in {"/", "|", "\\"}

\* analyze(contractSource).imports: a source's content is modelled by the
\* list of import strings the analyzer finds in it
Analyze(contractSource) == [imports |-> contractSource.imports]

\* the callback of imports.map, lines 102-108
ResolveImport(sourceName, i) ==
    IF IsRelativeImport(i)
    THEN ReplaceAllBackslashes(PathJoin(PathDirname(sourceName), i))
    ELSE i

\* the first element of a sequence of results that threw, if one did
FirstThrow(rs) ==
    LET bad == {k \in 1..Len(rs) : ~rs[k].ok}
    IN IF bad = {} THEN None
       ELSE Some(rs[CHOOSE k \in bad : \A j \in bad : k <= j])

\* variant: the imports of the file are returned without recursing into them
GetImportSourceNamesImmediate(sourceName, bi, depth) ==
    IF sourceName \notin DOMAIN bi.input.sources THEN Threw("TypeError")
    ELSE LET imports == Analyze(bi.input.sources[sourceName].content).imports
         IN Returned([k \in 1..Len(imports) |-> ResolveImport(sourceName, imports[k])])

\* one activation of getImportSourceNames at call-stack depth `depth`:
\* the runtime raises RangeError when the stack is exhausted, and reading
\* .content of a source that is not in the mapping raises TypeError
RECURSIVE GetImportSourceNamesAt(_, _, _)
GetImportSourceNamesAt(sourceName, bi, depth) ==
    IF depth > MaxCallStack THEN Threw("RangeError")
    ELSE IF sourceName \notin DOMAIN bi.input.sources THEN Threw("TypeError")
    ELSE LET contractSource == bi.input.sources[sourceName].content
             imports == Analyze(contractSource).imports
             importSources == [k \in 1..Len(imports) |->
                                  ResolveImport(sourceName, imports[k])]
             nested == [k \in 1..Len(importSources) |->
                           GetImportSourceNamesAt(importSources[k], bi, depth + 1)]
             thrown == FirstThrow(nested)
         IN IF thrown.defined THEN thrown.value
            ELSE Returned(importSources
                            \o Flatten([k \in 1..Len(nested) |-> nested[k].value]))

GetImportSourceNames(sourceName, bi) == GetImportSourceNamesAt(sourceName, bi, 1)

-----------------------------------------------------------------------------
(* resolveChainConfig *)

\* [...customChains, ...builtinChains].find((c) => c.chainId === chainId)
FindChain(chains, chainId) ==
    LET hits == {k \in 1..Len(chains) : chains[k].chainId = chainId}
    IN IF hits = {} THEN None
       ELSE Some(chains[CHOOSE k \in hits : \A j \in hits : k <= j])

\* variant: the built-in table is searched before the custom list
ResolveChainConfigBuiltinFirst(ds, custom) ==
    LET found == FindChain(builtinChains \o custom, ds.chainId)
    IN IF ~found.defined THEN Threw("UNSUPPORTED_CHAIN")
       ELSE Returned(found.value)

\* variant: an unknown chain id falls back to the first known chain
ResolveChainConfigFallsBack(ds, custom) ==
    LET found == FindChain(custom \o builtinChains, ds.chainId)
    IN IF ~found.defined THEN Returned((custom \o builtinChains)[1])
       ELSE Returned(found.value)

ResolveChainConfig(ds, custom) ==
    LET found == FindChain(custom \o builtinChains, ds.chainId)
    IN IF ~found.defined THEN Threw("UNSUPPORTED_CHAIN")
       ELSE Returned(found.value)

-----------------------------------------------------------------------------
(* What is on disk: builds, artifacts and execution records *)

SrcA == <<"contracts", "/", "A.sol">>
SrcB == <<"contracts", "/", "B.sol">>
SrcC == <<"C.sol">>
SrcE == <<"D", "/", "E.sol">>
SrcU == <<"contracts", "/", "U.sol">>
SrcLib == <<"contracts", "/", "Lib.sol">>
SrcX == <<"X.sol">>
SrcY == <<"Y.sol">>
SrcW == <<"W.sol">>
SrcZ == <<"Z.sol">>

Source(imports) == [content |-> [imports |-> imports]]

NoLibraries == [l \in {} |-> "0x"]

\* build1: A imports ./B.sol; B imports C.sol and ../D/E.sol; U and Lib are
\* imported by nobody.  build2: X and Y import each other; W imports Z with a
\* backslash; the build was compiled with library settings of its own.
PersistedBuildInfos ==
    [b \in {"build1", "build2"} |->
        IF b = "build1"
        THEN [id |-> b,
              solcLongVersion |-> <<"0.8.19+commit.abc">>,
              input |-> [sources |->
                            (SrcA :> Source(<< <<".", "/", "B.sol">> >>)) @@
                            (SrcB :> Source(<< <<"C.sol">>,
                                               <<"..", "/", "D", "/", "E.sol">> >>)) @@
                            (SrcC :> Source(<<>>)) @@
                            (SrcE :> Source(<<>>)) @@
                            (SrcU :> Source(<<>>)) @@
                            (SrcLib :> Source(<<>>)),
                         settings |-> [optimizer |-> "on", libraries |-> None]]]
        ELSE [id |-> b,
              solcLongVersion |-> <<"v", "0.8.19+commit.abc">>,
              input |-> [sources |->
                            (SrcX :> Source(<< <<".", "/", "Y.sol">> >>)) @@
                            (SrcY :> Source(<< <<".", "/", "X.sol">> >>)) @@
                            (SrcW :> Source(<< <<".", "\\", "Z.sol">> >>)) @@
                            (SrcZ :> Source(<<>>)),
                         settings |-> [optimizer |-> "off",
                                       libraries |->
                                           Some(SrcZ :> ("Old" :> "0x99"))]]]]

NoLinkReferences == [s \in {} |-> {}]

ArtifactOf(build, sourceName, linkReferences) ==
    [build |-> build, sourceName |-> sourceName, linkReferences |-> linkReferences]

\* the artifact stored for each future id, with the build its debug file names
PersistedArtifacts ==
    ("M#A" :> ArtifactOf("build1", SrcA, NoLinkReferences)) @@
    ("M#B" :> ArtifactOf("build1", SrcB, SrcLib :> {"Lib"})) @@
    ("M#U" :> ArtifactOf("build1", SrcU, NoLinkReferences)) @@
    ("M#F" :> ArtifactOf("build1", SrcU, NoLinkReferences)) @@
    ("M#N" :> ArtifactOf("build1", SrcC, NoLinkReferences)) @@
    ("M#R" :> ArtifactOf("build1", SrcC, NoLinkReferences)) @@
    ("M#V" :> ArtifactOf("build1", SrcB, SrcLib :> {"Lib"})) @@
    ("M#X" :> ArtifactOf("build2", SrcX, NoLinkReferences)) @@
    ("M#W" :> ArtifactOf("build2", SrcW, SrcW :> {}))

DeploymentType == "DEPLOYMENT_EXECUTION_STATE"
CallType == "CALL_EXECUTION_STATE"

ExState(id, type, status, libraries, result) ==
    [id |-> id, type |-> type, status |-> status, artifactId |-> id,
     contractName |-> id, constructorArgs |-> <<id>>,
     libraries |-> libraries, result |-> result]

SuccessResult(address) == Some([type |-> "SUCCESS", address |-> address])

\* the execution records a deployment state is made of
RecordPool ==
    { ExState("M#A", DeploymentType, "SUCCESS", NoLibraries, SuccessResult("0xA")),
      ExState("M#B", DeploymentType, "SUCCESS", "Lib" :> "0x11", SuccessResult("0xB")),
      ExState("M#U", DeploymentType, "SUCCESS", NoLibraries, SuccessResult("0xU")),
      ExState("M#F", DeploymentType, "FAILED", NoLibraries,
              Some([type |-> "REVERTED_TRANSACTION"])),
      ExState("M#N", DeploymentType, "SUCCESS", NoLibraries, None),
      ExState("M#R", DeploymentType, "SUCCESS", NoLibraries,
              Some([type |-> "STRATEGY_ERROR"])),
      ExState("M#V", DeploymentType, "SUCCESS", NoLibraries, SuccessResult("0xV")),
      ExState("M#X", DeploymentType, "SUCCESS", NoLibraries, SuccessResult("0xX")),
      ExState("M#W", DeploymentType, "SUCCESS", NoLibraries, SuccessResult("0xW")),
      ExState("M#call", CallType, "SUCCESS", NoLibraries, SuccessResult("0xC")) }

\* execution states are keyed by id: a deployment state holds a record once
InjectiveSeqs(S, n) ==
    {s \in UNION {[1..k -> S] : k \in 0..n} :
        \A i, j \in 1..Len(s) : i # j => s[i] # s[j]}

Chain(chainId, name) == [chainId |-> chainId, name |-> name]

\* the table shipped as internal/chain-config
ShippedBuiltinChains == <<Chain(1, "mainnet"), Chain(10, "optimism")>>

DeploymentStates ==
    {None} \cup
    {[defined |-> TRUE, chainId |-> c, executionStates |-> s] :
        c \in {1, 31337}, s \in InjectiveSeqs(RecordPool, MaxRecords)}

CustomChainLists == {<<>>, <<Chain(5, "testnet"), Chain(1, "fork")>>}

-----------------------------------------------------------------------------
(* The deployment loader and the views *)

\* loadDeploymentState(deploymentLoader)
LoadDeploymentState == deploymentState

\* deploymentLoader.readBuildInfo(artifactId): the loader's object of the
\* build when it shares them, a new object parsed from disk otherwise
ReadBuildInfo(artifactId) ==
    LET b == PersistedArtifacts[artifactId].build
    IN IF loaderSharesBuildInfo THEN buildInfos[b] ELSE PersistedBuildInfos[b]

\* deploymentLoader.loadArtifact(artifactId)
LoadArtifact(artifactId) == PersistedArtifacts[artifactId]

\* findExecutionStatesByType(type, deploymentState)
FindExecutionStatesByType(type, ds) ==
    SelectSeq(ds.executionStates, LAMBDA e : e.type = type)

\* encodeDeploymentArguments(artifact, constructorArgs)
EncodeDeploymentArguments(art, constructorArgs) ==
    <<"abi", art.sourceName, constructorArgs>>

-----------------------------------------------------------------------------
(* resolveLibraryInfoForArtifact, prepareInputBasedOn, convertExStateToVerifyInfo *)

AssertionError == "ASSERTION_ERROR"

\* the (sourceName, libName) pairs the two loops of lines 188-201 visit
LinkPairs(art) ==
    UNION {{<<s, l>> : l \in art.linkReferences[s]} : s \in DOMAIN art.linkReferences}

\* variant: a library without an address is left out of the mapping
ResolveLibraryInfoForArtifactSkipsMissing(art, libraries) ==
    LET pairs == {p \in LinkPairs(art) : p[2] \in DOMAIN libraries}
        withLibs == {p[1] : p \in pairs}
    IN IF withLibs = {} THEN Returned(None)
       ELSE Returned(Some([s \in withLibs |->
                              [l \in {q[2] : q \in {r \in pairs : r[1] = s}} |->
                                  libraries[l]]]))

\* variant: the entry of a source is made in the outer loop, also for a
\* source that references no library
ResolveLibraryInfoForArtifactKeepsEmptySources(art, libraries) ==
    LET pairs == LinkPairs(art)
    IN IF \E p \in pairs : p[2] \notin DOMAIN libraries
       THEN Threw(AssertionError)
       ELSE IF DOMAIN art.linkReferences = {} THEN Returned(None)
       ELSE Returned(Some([s \in DOMAIN art.linkReferences |->
                              [l \in art.linkReferences[s] |-> libraries[l]]]))

\* Threw when a library has no address, Returned(None) for null, and
\* Returned(Some(mapping)) otherwise
ResolveLibraryInfoForArtifact(art, libraries) ==
    LET pairs == LinkPairs(art)
        withLibs == {p[1] : p \in pairs}
    IN IF \E p \in pairs : p[2] \notin DOMAIN libraries
       THEN Threw(AssertionError)
       ELSE IF withLibs = {} THEN Returned(None)
       ELSE Returned(Some([s \in withLibs |->
                              [l \in art.linkReferences[s] |-> libraries[l]]]))

\* variant: the resolved mapping is merged into the libraries already set
PrepareInputBasedOnMerges(bi, art, libraries) ==
    LET sourceToLibraryAddresses == ResolveLibraryInfoForArtifact(art, libraries)
    IN IF ~sourceToLibraryAddresses.ok
       THEN [result |-> sourceToLibraryAddresses, input |-> bi.input]
       ELSE IF ~sourceToLibraryAddresses.value.defined
       THEN [result |-> Returned(bi.input), input |-> bi.input]
       ELSE LET merged == IF bi.input.settings.libraries.defined
                          THEN sourceToLibraryAddresses.value.value @@
                                   bi.input.settings.libraries.value
                          ELSE sourceToLibraryAddresses.value.value
                input == [bi.input EXCEPT !.settings.libraries = Some(merged)]
            IN [result |-> Returned(input), input |-> input]

\* the object buildInfo.input after the call, and what the call returned
\* (the same object) or threw
PrepareInputBasedOn(bi, art, libraries) ==
    LET sourceToLibraryAddresses == ResolveLibraryInfoForArtifact(art, libraries)
    IN IF ~sourceToLibraryAddresses.ok
       THEN [result |-> sourceToLibraryAddresses, input |-> bi.input]
       ELSE IF ~sourceToLibraryAddresses.value.defined
       THEN [result |-> Returned(bi.input), input |-> bi.input]
       ELSE LET input == [bi.input EXCEPT !.settings.libraries =
                                              sourceToLibraryAddresses.value]
            IN [result |-> Returned(input), input |-> input]

\* variant: the artifact's own source is not kept
PruneSourcesKeepsImportsOnly(input, sourceNames) ==
    [input EXCEPT !.sources =
        [source \in {k \in DOMAIN input.sources : k \in Range(Tail(sourceNames))} |->
            input.sources[source]]]

\* lines 136-147 on the object `input`: the delete loop keeps the keys that
\* sourceNames includes
PruneSources(input, sourceNames) ==
    [input EXCEPT !.sources =
        [source \in {k \in DOMAIN input.sources : k \in Range(sourceNames)} |->
            input.sources[source]]]

\* buildInfo.solcLongVersion.startsWith("v") ? ... : `v${...}`
\* variant: the "v" is put in front of every version
CompilerVersionAlwaysPrefixes(solcLongVersion) == <<"v">> \o solcLongVersion

\* buildInfo.solcLongVersion.startsWith("v") ? ... : `v${...}`
CompilerVersion(solcLongVersion) ==
    IF solcLongVersion # <<>> /\ Head(solcLongVersion) = "v"
    THEN solcLongVersion
    ELSE <<"v">> \o solcLongVersion

\* JSON.stringify(sourceCode): the value of the object at the time of the
\* call; a property whose value is undefined is left out
JSONStringify(input) ==
    [sources |-> input.sources,
     settings |-> IF input.settings.libraries.defined
                  THEN [optimizer |-> input.settings.optimizer,
                        libraries |-> input.settings.libraries.value]
                  ELSE [optimizer |-> input.settings.optimizer]]

\* `${artifact.sourceName}:${contractName}`
QualifiedName(sourceName, contractName) == sourceName \o <<":", contractName>>

\* variant: only the presence of a result is asserted
HasResult(exState) == exState.result.defined

\* the condition asserted at lines 128-132
HasSuccessfulResult(exState) ==
    exState.result.defined /\ exState.result.value.type = "SUCCESS"

\* exState.result.address: a property the result does not have reads undefined
AddressOf(result) ==
    IF "address" \in DOMAIN result THEN result.address ELSE "undefined"

\* variant: the sources are pruned whatever includeUnrelatedContracts says
ConvertExStateToVerifyInfoAlwaysPrunes(exState, bi, art, include) ==
    IF ~HasSuccessfulResult(exState)
    THEN [result |-> Threw(AssertionError), input |-> bi.input]
    ELSE
    LET prepared == PrepareInputBasedOn(bi, art, exState.libraries)
        biAfter == [bi EXCEPT !.input = prepared.input]
        closure == GetImportSourceNames(art.sourceName, biAfter)
        sourceCode == PruneSources(prepared.input,
                                   <<art.sourceName>> \o closure.value)
    IN IF ~prepared.result.ok
       THEN [result |-> prepared.result, input |-> prepared.input]
       ELSE IF ~closure.ok
       THEN [result |-> closure, input |-> prepared.input]
       ELSE [result |-> Returned(
                 [address |-> AddressOf(exState.result.value),
                  compilerVersion |-> CompilerVersion(bi.solcLongVersion),
                  sourceCode |-> JSONStringify(sourceCode),
                  name |-> QualifiedName(art.sourceName, exState.contractName),
                  args |-> EncodeDeploymentArguments(art, exState.constructorArgs)]),
             input |-> sourceCode]

\* the body of convertExStateToVerifyInfo after the two reads: what it
\* returned or threw, and the object buildInfo.input as it leaves it
ConvertExStateToVerifyInfo(exState, bi, art, include) ==
    IF ~HasSuccessfulResult(exState)
    THEN [result |-> Threw(AssertionError), input |-> bi.input]
    ELSE
    LET prepared == PrepareInputBasedOn(bi, art, exState.libraries)
        biAfter == [bi EXCEPT !.input = prepared.input]
        closure == GetImportSourceNames(art.sourceName, biAfter)
        sourceCode == IF include THEN prepared.input
                      ELSE PruneSources(prepared.input,
                                        <<art.sourceName>> \o closure.value)
    IN IF ~prepared.result.ok
       THEN [result |-> prepared.result, input |-> prepared.input]
       ELSE IF ~include /\ ~closure.ok
       THEN [result |-> closure, input |-> prepared.input]
       ELSE [result |-> Returned(
                 [address |-> AddressOf(exState.result.value),
                  compilerVersion |-> CompilerVersion(bi.solcLongVersion),
                  sourceCode |-> JSONStringify(sourceCode),
                  name |-> QualifiedName(art.sourceName, exState.contractName),
                  args |-> EncodeDeploymentArguments(art, exState.constructorArgs)]),
             input |-> sourceCode]

-----------------------------------------------------------------------------
(* getVerificationInformation, driven by its consumer *)

\* variant: the status filter lets every record through
IsSuccessAnyStatus(exState) == TRUE

IsSuccess(exState) == exState.status = "SUCCESS"

Throw(e) ==
    /\ pc' = "thrown"
    /\ error' = Some(e)

\* variant: the loop body always works on the first selected record
CurrentExStateFirst == deploymentExStates[1]

\* the loop variable exState of line 62
CurrentExState == deploymentExStates[idx]

\* the consumer calls next(): the generator starts, or resumes after its yield
ConsumerNext ==
    /\ pc \in {"created", "suspended"}
    /\ requests' = requests + 1
    /\ IF pc = "created"
       THEN pc' = "load" /\ idx' = idx
       ELSE pc' = "loop" /\ idx' = idx + 1
    /\ UNCHANGED <<deploymentState, customChains, includeUnrelatedContracts,
                   builtinChains, platform, loaderSharesBuildInfo, buildInfos,
                   chainConfig, deploymentExStates, buildInfo, artifact,
                   verifyInfo, yielded, error, reads, fnArgs, fnResult>>

\* the consumer stops: return() on a generator that is not running
ConsumerReturn ==
    /\ pc \in {"created", "suspended"}
    /\ pc' = "returned"
    /\ UNCHANGED <<deploymentState, customChains, includeUnrelatedContracts,
                   builtinChains, platform, loaderSharesBuildInfo, buildInfos,
                   requests, chainConfig, deploymentExStates, idx, buildInfo,
                   artifact, verifyInfo, yielded, error, reads, fnArgs, fnResult>>

\* variant: the run goes on to chain resolution whatever the loader returned
LoadStateWithoutCheck ==
    /\ pc = "load"
    /\ pc' = "resolve"
    /\ UNCHANGED <<deploymentState, customChains, includeUnrelatedContracts,
                   builtinChains, platform, loaderSharesBuildInfo, buildInfos,
                   requests, chainConfig, deploymentExStates, idx, buildInfo,
                   artifact, verifyInfo, yielded, error, reads, fnArgs, fnResult>>

\* lines 39-47
LoadState ==
    /\ pc = "load"
    /\ IF ~LoadDeploymentState.defined
       THEN Throw("UNINITIALIZED_DEPLOYMENT")
       ELSE pc' = "resolve" /\ error' = error
    /\ UNCHANGED <<deploymentState, customChains, includeUnrelatedContracts,
                   builtinChains, platform, loaderSharesBuildInfo, buildInfos,
                   requests, chainConfig, deploymentExStates, idx, buildInfo,
                   artifact, verifyInfo, yielded, reads, fnArgs, fnResult>>

\* variant: the selection is looked at before the chain is resolved
ResolveChainAfterSelection ==
    /\ pc = "resolve"
    /\ LET r == ResolveChainConfig(deploymentState, customChains)
           selected == SelectSeq(FindExecutionStatesByType(DeploymentType,
                                                           deploymentState),
                                 IsSuccess)
       IN IF Len(selected) = 0
          THEN Throw("NO_CONTRACTS_DEPLOYED") /\ chainConfig' = chainConfig
          ELSE IF ~r.ok
          THEN Throw(r.error) /\ chainConfig' = chainConfig
          ELSE pc' = "select" /\ chainConfig' = Some(r.value) /\ error' = error
    /\ UNCHANGED <<deploymentState, customChains, includeUnrelatedContracts,
                   builtinChains, platform, loaderSharesBuildInfo, buildInfos,
                   requests, deploymentExStates, idx, buildInfo, artifact,
                   verifyInfo, yielded, reads, fnArgs, fnResult>>

\* line 49
ResolveChain ==
    /\ pc = "resolve"
    /\ LET r == ResolveChainConfig(deploymentState, customChains)
       IN IF ~r.ok
          THEN Throw(r.error) /\ chainConfig' = chainConfig
          ELSE pc' = "select" /\ chainConfig' = Some(r.value) /\ error' = error
    /\ UNCHANGED <<deploymentState, customChains, includeUnrelatedContracts,
                   builtinChains, platform, loaderSharesBuildInfo, buildInfos,
                   requests, deploymentExStates, idx, buildInfo, artifact,
                   verifyInfo, yielded, reads, fnArgs, fnResult>>

\* lines 51-60
SelectRecords ==
    /\ pc = "select"
    /\ deploymentExStates' =
           SelectSeq(FindExecutionStatesByType(DeploymentType, deploymentState),
                     IsSuccess)
    /\ IF Len(deploymentExStates') = 0
       THEN Throw("NO_CONTRACTS_DEPLOYED") /\ idx' = idx
       ELSE pc' = "loop" /\ idx' = 1 /\ error' = error
    /\ UNCHANGED <<deploymentState, customChains, includeUnrelatedContracts,
                   builtinChains, platform, loaderSharesBuildInfo, buildInfos,
                   requests, chainConfig, buildInfo, artifact, verifyInfo,
                   yielded, reads, fnArgs, fnResult>>

\* line 62 with a record left, and the two reads of lines 121-124
ReadRecord ==
    /\ pc = "loop"
    /\ idx <= Len(deploymentExStates)
    /\ LET exState == CurrentExState
       IN /\ buildInfo' = Some(ReadBuildInfo(exState.artifactId))
          /\ artifact' = Some(LoadArtifact(exState.artifactId))
          /\ reads' = reads \o << <<"readBuildInfo", exState.artifactId>>,
                                  <<"loadArtifact", exState.artifactId>> >>
    /\ pc' = "convert"
    /\ UNCHANGED <<deploymentState, customChains, includeUnrelatedContracts,
                   builtinChains, platform, loaderSharesBuildInfo, buildInfos,
                   requests, chainConfig, deploymentExStates, idx, verifyInfo,
                   yielded, error, fnArgs, fnResult>>

\* variant: a record whose conversion throws is skipped and the loop goes on
ConvertRecordSkipsFailures ==
    /\ pc = "convert"
    /\ LET exState == CurrentExState
           c == ConvertExStateToVerifyInfo(exState, buildInfo.value, artifact.value,
                                           includeUnrelatedContracts)
       IN /\ buildInfo' = Some([buildInfo.value EXCEPT !.input = c.input])
          /\ buildInfos' = IF loaderSharesBuildInfo
                           THEN [buildInfos EXCEPT ![buildInfo.value.id].input = c.input]
                           ELSE buildInfos
          /\ IF c.result.ok
             THEN pc' = "yield" /\ verifyInfo' = Some(c.result.value) /\ idx' = idx
             ELSE pc' = "loop" /\ verifyInfo' = verifyInfo /\ idx' = idx + 1
    /\ UNCHANGED <<deploymentState, customChains, includeUnrelatedContracts,
                   builtinChains, platform, loaderSharesBuildInfo, requests,
                   chainConfig, deploymentExStates, artifact, yielded,
                   error, reads, fnArgs, fnResult>>

\* lines 126-159: the conversion proper; the object it worked on is the
\* loader's own when the loader shares its objects
ConvertRecord ==
    /\ pc = "convert"
    /\ LET exState == CurrentExState
           c == ConvertExStateToVerifyInfo(exState, buildInfo.value, artifact.value,
                                           includeUnrelatedContracts)
       IN /\ buildInfo' = Some([buildInfo.value EXCEPT !.input = c.input])
          /\ buildInfos' = IF loaderSharesBuildInfo
                           THEN [buildInfos EXCEPT ![buildInfo.value.id].input = c.input]
                           ELSE buildInfos
          /\ IF c.result.ok
             THEN pc' = "yield" /\ verifyInfo' = Some(c.result.value) /\ error' = error
             ELSE Throw(c.result.error) /\ verifyInfo' = verifyInfo
    /\ UNCHANGED <<deploymentState, customChains, includeUnrelatedContracts,
                   builtinChains, platform, loaderSharesBuildInfo, requests,
                   chainConfig, deploymentExStates, idx, artifact, yielded,
                   reads, fnArgs, fnResult>>

\* variant: the element is stored and the loop goes on without waiting for
\* the consumer
YieldResultWithoutSuspending ==
    /\ pc = "yield"
    /\ yielded' = Append(yielded, <<chainConfig.value, verifyInfo.value>>)
    /\ pc' = "loop"
    /\ idx' = idx + 1
    /\ UNCHANGED <<deploymentState, customChains, includeUnrelatedContracts,
                   builtinChains, platform, loaderSharesBuildInfo, buildInfos,
                   requests, chainConfig, deploymentExStates, buildInfo,
                   artifact, verifyInfo, error, reads, fnArgs, fnResult>>

\* lines 69-71
YieldResult ==
    /\ pc = "yield"
    /\ yielded' = Append(yielded, <<chainConfig.value, verifyInfo.value>>)
    /\ pc' = "suspended"
    /\ UNCHANGED <<deploymentState, customChains, includeUnrelatedContracts,
                   builtinChains, platform, loaderSharesBuildInfo, buildInfos,
                   requests, chainConfig, deploymentExStates, idx, buildInfo,
                   artifact, verifyInfo, error, reads, fnArgs, fnResult>>

\* line 62 with no record left: the generator returns
Finish ==
    /\ pc = "loop"
    /\ idx > Len(deploymentExStates)
    /\ pc' = "completed"
    /\ UNCHANGED <<deploymentState, customChains, includeUnrelatedContracts,
                   builtinChains, platform, loaderSharesBuildInfo, buildInfos,
                   requests, chainConfig, deploymentExStates, idx, buildInfo,
                   artifact, verifyInfo, yielded, error, reads, fnArgs, fnResult>>

Init ==
    /\ deploymentState \in DeploymentStates
    /\ customChains \in CustomChainLists
    /\ includeUnrelatedContracts \in BOOLEAN
    /\ builtinChains = ShippedBuiltinChains
    /\ platform \in Platforms
    /\ loaderSharesBuildInfo \in BOOLEAN
    /\ buildInfos = PersistedBuildInfos
    /\ pc = "created"
    /\ requests = 0
    /\ chainConfig = None
    /\ deploymentExStates = <<>>
    /\ idx = 0
    /\ buildInfo = None
    /\ artifact = None
    /\ verifyInfo = None
    /\ yielded = <<>>
    /\ error = None
    /\ reads = <<>>
    /\ fnArgs = None
    /\ fnResult = None

Next ==
    \/ ConsumerNext
    \/ ConsumerReturn
    \/ LoadState
    \/ ResolveChain
    \/ SelectRecords
    \/ ReadRecord
    \/ ConvertRecord
    \/ YieldResult
    \/ Finish

Spec == Init /\ [][Next]_vars

-----------------------------------------------------------------------------
(* resolveChainConfig and getImportSourceNames applied on their own *)

ChainIds == {1, 2, 3}

ChainEntries == {Chain(c, n) : c \in {1, 2}, n \in {"a", "b"}}

ChainLists == UNION {[1..k -> ChainEntries] : k \in 0..MaxChains}

CallResolveChainConfig ==
    /\ fnArgs.defined
    /\ fnArgs.value.fn = "resolveChainConfig"
    /\ ~fnResult.defined
    /\ fnResult' = Some(ResolveChainConfig(fnArgs.value.deploymentState,
                                           fnArgs.value.customChains))
    /\ UNCHANGED <<pipelineVars, builtinChains, platform, fnArgs>>

IdlePipeline ==
    /\ deploymentState = None
    /\ customChains = <<>>
    /\ includeUnrelatedContracts = FALSE
    /\ loaderSharesBuildInfo = FALSE
    /\ buildInfos = PersistedBuildInfos
    /\ pc = "idle"
    /\ requests = 0
    /\ chainConfig = None
    /\ deploymentExStates = <<>>
    /\ idx = 0
    /\ buildInfo = None
    /\ artifact = None
    /\ verifyInfo = None
    /\ yielded = <<>>
    /\ error = None
    /\ reads = <<>>

InitChain ==
    /\ IdlePipeline
    /\ platform = "posix"
    /\ builtinChains \in ChainLists
    /\ fnArgs \in {Some([fn |-> "resolveChainConfig",
                         deploymentState |-> [defined |-> TRUE, chainId |-> c,
                                              executionStates |-> <<>>],
                         customChains |-> custom]) :
                     c \in ChainIds, custom \in ChainLists}
    /\ fnResult = None

SpecChain == InitChain /\ [][CallResolveChainConfig]_vars

FileA == <<"A.sol">>
FileB == <<"lib", "/", "B.sol">>
FileC == <<"lib", "/", "C.sol">>

ClosureFiles == {FileA, FileB, FileC}

\* ./lib/B.sol, ./C.sol, .\C.sol, ../A.sol and the non-relative lib/B.sol
ImportStrings ==
    { <<".", "/", "lib", "/", "B.sol">>,
      <<".", "/", "C.sol">>,
      <<".", "\\", "C.sol">>,
      <<"..", "/", "A.sol">>,
      <<"lib", "/", "B.sol">> }

ImportLists ==
    {SetToSeq(S) : S \in {T \in SUBSET ImportStrings : Cardinality(T) <= MaxImports}}

CallGetImportSourceNames ==
    /\ fnArgs.defined
    /\ fnArgs.value.fn = "getImportSourceNames"
    /\ ~fnResult.defined
    /\ fnResult' = Some(GetImportSourceNames(fnArgs.value.sourceName,
                                             fnArgs.value.buildInfo))
    /\ UNCHANGED <<pipelineVars, builtinChains, platform, fnArgs>>

InitClosure ==
    /\ IdlePipeline
    /\ platform \in Platforms
    /\ builtinChains = ShippedBuiltinChains
    /\ fnArgs \in {Some([fn |-> "getImportSourceNames",
                         sourceName |-> root,
                         buildInfo |-> [input |-> [sources |->
                             [f \in ClosureFiles |-> Source(g[f])]]]]) :
                     root \in ClosureFiles, g \in [ClosureFiles -> ImportLists]}
    /\ fnResult = None

SpecClosure == InitClosure /\ [][CallGetImportSourceNames]_vars

-----------------------------------------------------------------------------
(* Properties *)

\* the paths a source imports, resolved
ImportEdges(f, sources) ==
    IF f \in DOMAIN sources
    THEN {ResolveImport(f, i) : i \in Range(sources[f].content.imports)}
    ELSE {}

RECURSIVE ReachableThrough(_, _)
ReachableThrough(S, sources) ==
    LET T == S \cup UNION {ImportEdges(f, sources) : f \in S}
    IN IF T = S THEN S ELSE ReachableThrough(T, sources)

\* the paths reachable from root by one or more import edges
ImportClosure(root, sources) == ReachableThrough(ImportEdges(root, sources), sources)

\* the records the deployment state says were deployed successfully, in its order
SuccessfulDeployments ==
    IF deploymentState.defined
    THEN SelectSeq(deploymentState.executionStates,
                   LAMBDA e : e.type = DeploymentType /\ e.status = "SUCCESS")
    ELSE <<>>

ChainIsKnown ==
    /\ deploymentState.defined
    /\ \E k \in 1..Len(customChains \o builtinChains) :
           (customChains \o builtinChains)[k].chainId = deploymentState.chainId

ResultIsSuccess(e) == e.result.defined /\ e.result.value.type = "SUCCESS"

LibraryIsMissing(e) ==
    \E s \in DOMAIN PersistedArtifacts[e.artifactId].linkReferences :
        \E l \in PersistedArtifacts[e.artifactId].linkReferences[s] :
            l \notin DOMAIN e.libraries

UserErrors == {"UNINITIALIZED_DEPLOYMENT", "UNSUPPORTED_CHAIN", "NO_CONTRACTS_DEPLOYED"}

C2_ConversionStartsFromPersistedInput ==
    pc = "convert" =>
        buildInfo.value.input = PersistedBuildInfos[buildInfo.value.id].input

\* C3: on every import graph whose imports all resolve to sources of the
\* build, cyclic ones included, getImportSourceNames returns.
C3_ClosureReturnsOnEveryGraph ==
    (/\ fnResult.defined
     /\ \A f \in DOMAIN fnArgs.value.buildInfo.input.sources :
            ImportEdges(f, fnArgs.value.buildInfo.input.sources)
                \subseteq DOMAIN fnArgs.value.buildInfo.input.sources)
        => fnResult.value.ok

\* C4: the i-th yielded element is built from the i-th deployment record of
\* status SUCCESS of the deployment state; a run that completes has yielded
\* one element for each of them.
C4_YieldedFollowSuccessfulDeployments ==
    /\ Len(yielded) <= Len(SuccessfulDeployments)
    /\ \A i \in 1..Len(yielded) :
           LET e == SuccessfulDeployments[i]
               art == PersistedArtifacts[e.artifactId]
           IN /\ e.result.defined
              /\ "address" \in DOMAIN e.result.value
              /\ yielded[i][2].address = e.result.value.address
              /\ yielded[i][2].name = art.sourceName \o <<":", e.contractName>>
              /\ yielded[i][2].args = <<"abi", art.sourceName, e.constructorArgs>>
    /\ pc = "completed" => Len(yielded) = Len(SuccessfulDeployments)

C4_Witness ==
    /\ pc = "completed"
    /\ Len(yielded) >= 2
    /\ Len(deploymentState.executionStates) > Len(yielded)
    /\ deploymentState.executionStates[1].status # "SUCCESS"

\* C5: resolveChainConfig returns the first custom entry with the chain id
\* when there is one, and otherwise the first built-in entry with it.
C5_CustomChainWins ==
    fnResult.defined =>
        LET id == fnArgs.value.deploymentState.chainId
            custom == fnArgs.value.customChains
            inCustom == {k \in 1..Len(custom) : custom[k].chainId = id}
            inBuiltin == {k \in 1..Len(builtinChains) : builtinChains[k].chainId = id}
        IN IF inCustom # {}
           THEN fnResult.value =
                    Returned(custom[CHOOSE k \in inCustom : \A j \in inCustom : k <= j])
           ELSE inBuiltin # {} =>
                    fnResult.value =
                        Returned(builtinChains[CHOOSE k \in inBuiltin :
                                                   \A j \in inBuiltin : k <= j])

C5_Witness ==
    /\ fnResult.defined
    /\ fnResult.value.ok
    /\ Len(fnArgs.value.customChains) = 2
    /\ fnArgs.value.customChains[1].chainId # fnArgs.value.deploymentState.chainId
    /\ fnResult.value.value = fnArgs.value.customChains[2]
    /\ \E k \in 1..Len(builtinChains) :
           /\ builtinChains[k].chainId = fnArgs.value.deploymentState.chainId
           /\ builtinChains[k] # fnResult.value.value

\* C6: a deployment state whose chain id is in neither list makes the run
\* throw UNSUPPORTED_CHAIN, with nothing yielded and no build-info or artifact read.
C6_UnknownChainFailsBeforeAnyRecord ==
    (deploymentState.defined /\ ~ChainIsKnown) =>
        /\ yielded = <<>>
        /\ reads = <<>>
        /\ pc \in {"created", "load", "resolve", "thrown", "returned"}
        /\ pc = "thrown" => error = Some("UNSUPPORTED_CHAIN")

C6_Witness ==
    /\ pc = "thrown"
    /\ error = Some("UNSUPPORTED_CHAIN")
    /\ Len(SuccessfulDeployments) >= 1

\* C7, as claimed: a loaded deployment state without a successful deployment
\* record makes the run throw NO_CONTRACTS_DEPLOYED.
C7_NoSuccessfulRecordThrowsNoContracts ==
    (deploymentState.defined /\ SuccessfulDeployments = <<>> /\ pc = "thrown") =>
        (error = Some("NO_CONTRACTS_DEPLOYED") /\ yielded = <<>>)

\* C7, amended: a loaded deployment state whose chain id is known and which
\* has no successful deployment record makes the run throw
\* NO_CONTRACTS_DEPLOYED, with nothing yielded and nothing read.
C7_KnownChainNoSuccessfulRecordThrowsNoContracts ==
    (deploymentState.defined /\ ChainIsKnown /\ SuccessfulDeployments = <<>>) =>
        /\ yielded = <<>>
        /\ reads = <<>>
        /\ pc \in {"created", "load", "resolve", "select", "thrown", "returned"}
        /\ pc = "thrown" => error = Some("NO_CONTRACTS_DEPLOYED")

C7_Witness ==
    /\ pc = "thrown"
    /\ error = Some("NO_CONTRACTS_DEPLOYED")
    /\ Len(deploymentState.executionStates) >= 1

\* C8: the reads of record k are made only after k requests and k - 1
\* deliveries; while the generator waits for a request and after the
\* consumer has stopped, no read, no conversion and no delivery happens.
C8_WorkOnlyOnRequest ==
    /\ [](/\ Len(reads) <= 2 * requests
          /\ Len(reads) <= 2 * (Len(yielded) + 1))
    /\ [][(pc \in {"created", "suspended", "returned"} /\ requests' = requests) =>
              /\ reads' = reads
              /\ buildInfos' = buildInfos
              /\ buildInfo' = buildInfo
              /\ yielded' = yielded]_vars
    /\ [][pc = "returned" => pc' = "returned"]_vars

C8_Witness ==
    /\ pc = "returned"
    /\ Len(yielded) = 1
    /\ Len(deploymentExStates) >= 2
    /\ Len(reads) = 2

\* C9: a user-visible error is thrown with nothing yielded; an assertion
\* failure at the k-th selected record leaves exactly the k - 1 elements
\* yielded before it, no record whose assertion fails is passed over, and
\* delivered elements never change.
C9_FailureAbortsWhereItHappens ==
    /\ [](/\ (error.defined /\ error.value \in UserErrors) => yielded = <<>>
          /\ (pc = "thrown" /\ error = Some(AssertionError)) =>
                 Len(yielded) = idx - 1
          /\ \A k \in 1..Len(deploymentExStates) :
                 (~ResultIsSuccess(deploymentExStates[k])
                      \/ LibraryIsMissing(deploymentExStates[k])) =>
                     (Len(yielded) < k /\ idx <= k))
    /\ [][/\ Len(yielded') >= Len(yielded)
          /\ SubSeq(yielded', 1, Len(yielded)) = yielded
          /\ pc = "thrown" => (yielded' = yielded /\ pc' = "thrown")]_vars

C9_Witness ==
    /\ pc = "thrown"
    /\ error = Some(AssertionError)
    /\ Len(yielded) >= 1
    /\ idx < Len(deploymentExStates)

\* C10: every yielded element comes from a record of status SUCCESS with a
\* result of type SUCCESS and carries that result's address; a selected
\* record without such a result yields nothing and fails the assertion.
C10_ElementsHaveSuccessfulResult ==
    /\ \A i \in 1..Len(yielded) :
           LET e == deploymentExStates[i]
           IN /\ e.status = "SUCCESS"
              /\ ResultIsSuccess(e)
              /\ yielded[i][2].address = e.result.value.address
    /\ \A k \in 1..Len(deploymentExStates) :
           ~ResultIsSuccess(deploymentExStates[k]) =>
               /\ Len(yielded) < k
               /\ ~(idx = k /\ pc \in {"yield", "suspended"})
               /\ (idx = k /\ pc = "thrown") => error = Some(AssertionError)

C10_Witness ==
    /\ pc = "thrown"
    /\ error = Some(AssertionError)
    /\ Len(yielded) >= 1
    /\ deploymentExStates[idx].result.defined
    /\ deploymentExStates[idx].result.value.type # "SUCCESS"

-----------------------------------------------------------------------------
(* convertExStateToVerifyInfo applied on its own, with what it calls *)

LinkSources == {SrcA, SrcLib}
LibraryNames == {"Lib", "Math"}
Addresses == {"0x11", "0x22"}

\* artifact.linkReferences: some sources, each with some library names
LinkReferenceSets ==
    UNION {[D -> SUBSET LibraryNames] : D \in SUBSET LinkSources}

\* exState.libraries: an address for some library names
LibraryMaps == UNION {[D -> Addresses] : D \in SUBSET LibraryNames}

\* settings.libraries of the build before the call
PriorLibraries ==
    {None, Some(SrcLib :> ("Old" :> "0x99")), Some(SrcA :> ("Lib" :> "0x99"))}

\* buildInfo.solcLongVersion
SolcLongVersions == {<<>>, <<"v">>, <<"0.8.19+commit.abc">>, <<"v", "0.8.19+commit.abc">>}

CallConvertExStateToVerifyInfo ==
    /\ fnArgs.defined
    /\ fnArgs.value.fn = "convertExStateToVerifyInfo"
    /\ ~fnResult.defined
    /\ LET a == fnArgs.value
       IN fnResult' =
              Some([resolved |->
                        ResolveLibraryInfoForArtifact(a.artifact, a.exState.libraries),
                    prepared |->
                        PrepareInputBasedOn(a.buildInfo, a.artifact, a.exState.libraries),
                    converted |->
                        ConvertExStateToVerifyInfo(a.exState, a.buildInfo, a.artifact,
                                                   a.includeUnrelatedContracts)])
    /\ UNCHANGED <<pipelineVars, builtinChains, platform, fnArgs>>

InitConvert ==
    /\ IdlePipeline
    /\ platform = "posix"
    /\ builtinChains = ShippedBuiltinChains
    /\ fnArgs \in
           {Some([fn |-> "convertExStateToVerifyInfo",
                  exState |-> ExState("M#H", DeploymentType, "SUCCESS", libs,
                                      SuccessResult("0xH")),
                  buildInfo |->
                      [id |-> "build3",
                       solcLongVersion |-> version,
                       input |-> [sources |-> (SrcA :> Source(<<>>)) @@
                                              (SrcLib :> Source(<<>>)) @@
                                              (SrcU :> Source(<<>>)),
                                  settings |-> [optimizer |-> "on",
                                                libraries |-> prior]]],
                  artifact |-> ArtifactOf("build3", SrcA, refs),
                  includeUnrelatedContracts |-> include]) :
               libs \in LibraryMaps, version \in SolcLongVersions,
               prior \in PriorLibraries, refs \in LinkReferenceSets,
               include \in BOOLEAN}
    /\ fnResult = None

SpecConvert == InitConvert /\ [][CallConvertExStateToVerifyInfo]_vars

\* the (sourceName, libName) pairs of the link references of the call
CallLinkPairs ==
    UNION {{<<s, l>> : l \in fnArgs.value.artifact.linkReferences[s]} :
              s \in DOMAIN fnArgs.value.artifact.linkReferences}

\* C11: when a referenced library has no address in the record's libraries,
\* resolveLibraryInfoForArtifact throws the assertion error (it returns
\* neither null nor a mapping), and so do prepareInputBasedOn and the
\* conversion of the record, which therefore yields no element.
C11_MissingLibraryThrows ==
    (/\ fnResult.defined
     /\ \E p \in CallLinkPairs : p[2] \notin DOMAIN fnArgs.value.exState.libraries)
        => /\ fnResult.value.resolved = Threw("ASSERTION_ERROR")
           /\ fnResult.value.prepared.result = Threw("ASSERTION_ERROR")
           /\ fnResult.value.converted.result = Threw("ASSERTION_ERROR")

C11_Witness ==
    /\ fnResult.defined
    /\ \E p \in CallLinkPairs : p[2] \notin DOMAIN fnArgs.value.exState.libraries
    /\ \E p \in CallLinkPairs : p[2] \in DOMAIN fnArgs.value.exState.libraries
    /\ ~fnResult.value.converted.result.ok

\* C12: when every referenced library has an address, the mapping returned
\* has exactly the pairs of the link references, each with libraries[libName];
\* null is returned exactly when there is no pair, and then
\* prepareInputBasedOn returns the compiler input as it was.
C12_ResolvedMappingIsExact ==
    (/\ fnResult.defined
     /\ \A p \in CallLinkPairs : p[2] \in DOMAIN fnArgs.value.exState.libraries)
        => LET r == fnResult.value.resolved
           IN /\ r.ok
              /\ r.value.defined <=> CallLinkPairs # {}
              /\ r.value.defined =>
                     /\ UNION {{<<s, l>> : l \in DOMAIN r.value.value[s]} :
                                  s \in DOMAIN r.value.value} = CallLinkPairs
                     /\ \A p \in CallLinkPairs :
                            r.value.value[p[1]][p[2]] =
                                fnArgs.value.exState.libraries[p[2]]
              /\ ~r.value.defined =>
                     /\ fnResult.value.prepared.result =
                            Returned(fnArgs.value.buildInfo.input)
                     /\ fnResult.value.prepared.input = fnArgs.value.buildInfo.input

C12_Witness ==
    /\ fnResult.defined
    /\ fnResult.value.resolved = Returned(None)
    /\ DOMAIN fnArgs.value.artifact.linkReferences # {}
    /\ fnArgs.value.buildInfo.input.settings.libraries.defined
    /\ fnResult.value.prepared.result.ok
    /\ fnResult.value.prepared.result.value.settings.libraries.defined

\* C13: when getImportSourceNames returns, the paths it returns are, as a
\* set, exactly those reachable from the root by one or more import edges,
\* and the root is not among them.
C13_ClosureIsReachableSet ==
    (fnResult.defined /\ fnResult.value.ok) =>
        /\ Range(fnResult.value.value) =
               ImportClosure(fnArgs.value.sourceName,
                             fnArgs.value.buildInfo.input.sources)
        /\ fnArgs.value.sourceName \notin Range(fnResult.value.value)

C13_Witness ==
    /\ fnResult.defined
    /\ fnResult.value.ok
    /\ LET imports == fnArgs.value.buildInfo.input.sources[fnArgs.value.sourceName]
                          .content.imports
       IN /\ Len(imports) = 1
          /\ imports[1] = <<"lib", "/", "B.sol">>
    /\ Range(fnResult.value.value) = {FileA, FileB}

\* the sources with every backslash of every import string written as a slash
WithForwardSlashes(sources) ==
    [f \in DOMAIN sources |->
        Source([k \in 1..Len(sources[f].content.imports) |->
                   ReplaceAllBackslashes(sources[f].content.imports[k])])]

\* C14: the outcome of the closure is the same whether the import strings
\* are written with "\" or with "/": the same paths, or a failure in both.
C14_SeparatorStyleDoesNotMatter ==
    fnResult.defined =>
        LET slashed == GetImportSourceNames(
                           fnArgs.value.sourceName,
                           [input |-> [sources |->
                               WithForwardSlashes(fnArgs.value.buildInfo.input.sources)]])
        IN /\ fnResult.value.ok = slashed.ok
           /\ fnResult.value.ok =>
                  Range(fnResult.value.value) = Range(slashed.value)


\* C15: with includeUnrelatedContracts = true, the sources of every yielded
\* element are the build's sources as persisted, same keys and same contents,
\* and the run never fails in the import closure (it is not computed).
C15_FullSourcesWhenUnrelatedIncluded ==
    includeUnrelatedContracts =>
        /\ \A i \in 1..Len(yielded) :
               LET art == PersistedArtifacts[deploymentExStates[i].artifactId]
               IN yielded[i][2].sourceCode.sources =
                      PersistedBuildInfos[art.build].input.sources
        /\ error \notin {Some("RangeError"), Some("TypeError")}

C15_Witness ==
    /\ includeUnrelatedContracts
    /\ loaderSharesBuildInfo
    /\ Len(yielded) >= 2
    /\ deploymentExStates[1].artifactId = "M#A"
    /\ deploymentExStates[2].artifactId = "M#X"

\* C16: when the loader returns no deployment state, the step the first
\* request starts throws UNINITIALIZED_DEPLOYMENT: the run never reaches chain
\* resolution, selects and reads no record and yields nothing.
C16_NoStateFailsOnFirstRequest ==
    /\ [](~deploymentState.defined =>
             /\ pc \in {"created", "load", "thrown", "returned"}
             /\ ~chainConfig.defined
             /\ deploymentExStates = <<>>
             /\ reads = <<>>
             /\ yielded = <<>>
             /\ pc = "load" => requests = 1
             /\ pc = "thrown" =>
                    error = Some("UNINITIALIZED_DEPLOYMENT") /\ requests = 1)
    /\ [][(~deploymentState.defined /\ pc = "load") => pc' = "thrown"]_vars

C16_Witness ==
    /\ ~deploymentState.defined
    /\ pc = "thrown"
    /\ error = Some("UNINITIALIZED_DEPLOYMENT")
    /\ requests = 1

\* C17: the compilerVersion of a converted record starts with "v": it is
\* solcLongVersion when that starts with "v" and "v" followed by
\* solcLongVersion otherwise, and normalizing it once more gives it back.
C17_CompilerVersionIsPrefixedOnce ==
    (fnResult.defined /\ fnResult.value.converted.result.ok) =>
        LET version == fnArgs.value.buildInfo.solcLongVersion
            cv == fnResult.value.converted.result.value.compilerVersion
        IN /\ cv # <<>> /\ Head(cv) = "v"
           /\ (version # <<>> /\ Head(version) = "v") => cv = version
           /\ ~(version # <<>> /\ Head(version) = "v") => cv = <<"v">> \o version
           /\ (IF cv # <<>> /\ Head(cv) = "v" THEN cv ELSE <<"v">> \o cv) = cv

C17_Witness ==
    /\ fnResult.defined
    /\ fnResult.value.converted.result.ok
    /\ fnArgs.value.buildInfo.solcLongVersion = <<"0.8.19+commit.abc">>
    /\ fnResult.value.converted.result.value.compilerVersion =
           <<"v", "0.8.19+commit.abc">>

\* C18: when the resolved mapping is not null, prepareInputBasedOn returns
\* the compiler input object with settings.libraries equal to the resolved
\* mapping: no entry set before survives unless the mapping has it, and the
\* other settings and the sources are as they were.
C18_ResolvedLibrariesReplacePrior ==
    (/\ fnResult.defined
     /\ fnResult.value.resolved.ok
     /\ fnResult.value.resolved.value.defined)
        => LET before == fnArgs.value.buildInfo.input
               resolved == fnResult.value.resolved.value.value
               p == fnResult.value.prepared
           IN /\ p.result.ok
              /\ p.result.value = p.input
              /\ p.input.settings.libraries = Some(resolved)
              /\ before.settings.libraries.defined =>
                     \A s \in DOMAIN before.settings.libraries.value :
                         /\ s \notin DOMAIN resolved =>
                                s \notin DOMAIN p.input.settings.libraries.value
                         /\ s \in DOMAIN resolved =>
                                p.input.settings.libraries.value[s] = resolved[s]
              /\ p.input.settings.optimizer = before.settings.optimizer
              /\ DOMAIN p.input.settings = DOMAIN before.settings
              /\ p.input.sources = before.sources
              /\ DOMAIN p.input = DOMAIN before

C18_Witness ==
    /\ fnResult.defined
    /\ fnResult.value.resolved.ok
    /\ fnResult.value.resolved.value.defined
    /\ fnArgs.value.buildInfo.input.settings.libraries.defined
    /\ DOMAIN fnArgs.value.buildInfo.input.settings.libraries.value = {SrcLib}
    /\ DOMAIN fnResult.value.resolved.value.value = {SrcA}
    /\ fnResult.value.prepared.result.ok
    /\ DOMAIN fnResult.value.prepared.input.settings.libraries.value = {SrcA}

\* C19: the checks before the first element run in the order state present,
\* chain resolved, selection non-empty, and the first that fails ends the
\* run with its error: a missing state gives UNINITIALIZED_DEPLOYMENT, an
\* unsupported chain UNSUPPORTED_CHAIN also when no record is successful,
\* NO_CONTRACTS_DEPLOYED is raised only once the chain is resolved; a run
\* raises at most one error and does nothing after it.
C19_FirstFailingCheckDecides ==
    /\ [](/\ error.defined <=> pc = "thrown"
          /\ chainConfig.defined => deploymentState.defined
          /\ deploymentExStates # <<>> => chainConfig.defined
          /\ pc = "thrown" =>
                 /\ ~deploymentState.defined =>
                        error = Some("UNINITIALIZED_DEPLOYMENT")
                 /\ (/\ deploymentState.defined
                     /\ \A k \in 1..Len(customChains \o builtinChains) :
                            (customChains \o builtinChains)[k].chainId #
                                deploymentState.chainId) =>
                        /\ error = Some("UNSUPPORTED_CHAIN")
                        /\ ~chainConfig.defined
                        /\ deploymentExStates = <<>>
                 /\ error = Some("NO_CONTRACTS_DEPLOYED") =>
                        /\ chainConfig.defined
                        /\ deploymentExStates = <<>>
                        /\ \A k \in 1..Len(deploymentState.executionStates) :
                               LET e == deploymentState.executionStates[k]
                               IN ~(e.type = DeploymentType /\ e.status = "SUCCESS"))
    /\ [][pc = "thrown" => (pc' = "thrown" /\ error' = error)]_vars

C19_Witness ==
    /\ pc = "thrown"
    /\ error = Some("UNSUPPORTED_CHAIN")
    /\ deploymentState.defined
    /\ Len(deploymentState.executionStates) >= 1
    /\ \A k \in 1..Len(deploymentState.executionStates) :
           deploymentState.executionStates[k].status # "SUCCESS"
=============================================================================
